---- MODULE Spec2Model ----
(***************************************************************************)
(* A model of n.posix (nposix.c with its header): the process clock, the   *)
(* fail-fast mutex and event wrappers, event.timed_wait, threads.sleep and *)
(* the random generator.  Time is counted in whole nanoseconds; a double   *)
(* number of seconds of the source is the integer number of nanoseconds it *)
(* stands for.                                                             *)
(***************************************************************************)
EXTENDS Integers, Naturals, Sequences, FiniteSets, TLC

\* ------------------------------------------------------------ constants
NSEC_PER_SEC == 1000000000

\* errno.h values used by the wrappers (Linux numbering)
ENOENT == 2
EIO == 5
E2BIG == 7
EINTR == 4
EBUSY == 16
ENOMEM == 12
EINVAL == 22
ETIMEDOUT == 110

\* ------------------------------------------------------------ bounds
\* the clocks advance in steps; Quantum is the coarse step, in nanoseconds
Quantum == 125000000
\* the number of clock advances of one run
MaxTicks == 2
\* what CLOCK_REALTIME reads when the run starts, in nanoseconds
RealtimeBase == 800000000
\* processors: the process CPU-time clock advances by at most NCpu times
\* the wall time that passed
NCpu == 2
\* draws from one seed in one run
MaxDraws == 3
\* returns of nanosleep counted within one sleep (the count stops there,
\* the loop does not)
MaxNaps == 2

Threads == {1, 2}
\* the threads that use every operation; the others lock, unlock and signal
Callers == {1}
NoThread == 0

VARIABLES
    aborted,      \* abort() was called: the process is gone
    died,         \* the call that aborted, with the status it had seen
    ret,          \* the call that returned in the step just taken, if one did
    debug,        \* the build defines DEBUG or _DEBUG (traceln prints)
    wall,         \* the physical time that passed, ns
    adj,          \* what administrative adjustments added to CLOCK_REALTIME
    cputime,      \* the process CPU-time clock, ns
    ticks,        \* clock advances so far
    \* threads.sleep, one caller
    sl_pc, sl_secs, sl_entry, sl_deadline, sl_req, sl_naps, sl_status,
    sl_frac,      \* what the deadline has beyond whole ns, in half nanoseconds
    \* mutex and event, and the threads using them
    mstate, owner, estate, waiters, pc,
    tw,
    \* random generator
    mult, add, gseed, useed, draws, out,
    gdraws,       \* draws that advanced the process-wide seed
    \* threads drawing concurrently
    seed0, tseed, rpc, loc, last, sdraws,
    \* str.equal: the memory the two pointers point into, the arguments,
    \* and the result once the call has returned
    s_mem, s_p1, s_p2, s_bytes, s_pc, s_result,
    mm            \* memmap.file_readonly: the call under way, or the last one

clockvars == <<wall, adj, cputime, ticks>>
sleepvars == <<sl_pc, sl_secs, sl_entry, sl_deadline, sl_req, sl_naps, sl_status, sl_frac>>
syncvars == <<mstate, owner, estate, waiters, pc, tw>>
thrvars == <<seed0, tseed, rpc, loc, last, sdraws>>
strvars == <<s_mem, s_p1, s_p2, s_bytes, s_pc, s_result>>
mapvars == <<mm>>
extvars == <<thrvars, strvars, mapvars>>
rngvars == <<mult, add, gseed, useed, draws, out, gdraws, extvars>>
procvars == <<aborted, died, ret>>
vars == <<procvars, debug, clockvars, sleepvars, syncvars, rngvars>>

\* ------------------------------------------------------------ clocks
\* the steps by which time passes: half of 0.0001 s, and the quantum
ClockSteps == {50000, Quantum}

\* CLOCK_REALTIME: the wall time plus what adjustments (NTP, DST) added
realtime == RealtimeBase + wall + adj

\* time passes by step; the process consumed k processors' worth of it
Tick(step, k) ==
    /\ ~aborted
    /\ ticks < MaxTicks
    /\ wall' = wall + step
    /\ cputime' = cputime + k * step
    /\ ticks' = ticks + 1
    /\ UNCHANGED adj

\* the administrator (or NTP) sets CLOCK_REALTIME forward or back
ClockAdjust(delta) ==
    /\ ~aborted
    /\ adj = 0
    /\ delta # 0
    /\ realtime + delta >= 0
    /\ adj' = delta
    /\ UNCHANGED <<wall, cputime, ticks>>

\* the statuses clock_gettime can report
ClockStatus == {0, EINVAL}

\* if_error_fatal(expression): abort() unless the status is 0
if_error_fatal_negative(status) == status < 0

if_error_fatal(status) == status # 0



\* ------------------------------------------------------------ records
\* the last call that returned, and its thread: the status the OS call gave
\* (for try_lock and timed_wait also the value returned) and the owner of
\* the mutex before and after
NoRet == [thread |-> NoThread, op |-> "none", status |-> 0, before |-> NoThread, after |-> NoThread]

Return(t, op, status, after) ==
    /\ ret' = [thread |-> t, op |-> op, status |-> status, before |-> owner, after |-> after]
    /\ UNCHANGED <<aborted, died>>

\* fatal(...): the diagnostic goes to stderr and abort() ends the process
Fatal(t, op, status) ==
    /\ aborted' = TRUE
    /\ ret' = NoRet
    /\ died' = [thread |-> t, op |-> op, call |-> op, status |-> status]

\* the same, naming the OS call whose status it was
FatalIn(t, op, call, status) ==
    /\ aborted' = TRUE
    /\ ret' = NoRet
    /\ died' = [thread |-> t, op |-> op, call |-> call, status |-> status]

NoDeath == [thread |-> NoThread, op |-> "none", call |-> "none", status |-> 0]

\* a step in which no call aborts and none returns
Alive == UNCHANGED <<aborted, died>> /\ ret' = NoRet

\* ------------------------------------------------------------ threads.sleep
\* the one thread that sleeps
Sleeper == 1

SleepDurations == {0 - Quantum, 0, 100000, Quantum, 2 * Quantum, NSEC_PER_SEC + 100000}

\* what nanosleep can answer: 0, or -1 with errno EINTR or EINVAL
NanosleepStatus == {0, EINTR, EINVAL}

\* struct timespec req of thread_sleep: whole seconds and the nanoseconds left
SleepRequestWhole(s) == [tv_sec |-> s \div NSEC_PER_SEC, tv_nsec |-> s]

SleepRequest(s) == [tv_sec |-> s \div NSEC_PER_SEC, tv_nsec |-> s % NSEC_PER_SEC]

NoRequest == [tv_sec |-> 0, tv_nsec |-> 0]

\* where thread_sleep goes when nanosleep returns: for (;;) goes round
AfterNanosleepNoLoop == "return"

AfterNanosleep == "loop"

\* a double holds less than a nanosecond: the durations are whole
\* nanoseconds plus this many half nanoseconds
SubNanos == {0, 1}

\* if (s <= 0) { break; } with s of ns nanoseconds and frac half nanoseconds
DeadlinePassedExactly(ns, frac) == ns = 0 /\ frac = 0

DeadlinePassed(ns, frac) == ns < 0 \/ (ns = 0 /\ frac = 0)

\* double deadline = process_clock.time() + secs;
thread_sleep_enter(secs, frac, st) ==
    /\ ~aborted
    /\ sl_pc = "idle"
    /\ sl_secs' = secs
    /\ sl_frac' = frac
    /\ sl_naps' = 0
    /\ sl_status' = 0
    /\ IF if_error_fatal(st)
         THEN /\ Fatal(Sleeper, "clock.time", st)
              /\ UNCHANGED <<sl_pc, sl_entry, sl_deadline, sl_req>>
         ELSE /\ sl_entry' = cputime
              /\ sl_deadline' = cputime + secs
              /\ sl_pc' = "loop"
              /\ sl_req' = NoRequest
              /\ Alive

\* double s = deadline - process_clock.time(); if (s <= 0) { break; } req = ...
thread_sleep_loop(st) ==
    /\ ~aborted
    /\ sl_pc = "loop"
    /\ IF if_error_fatal(st)
         THEN /\ Fatal(Sleeper, "clock.time", st)
              /\ UNCHANGED <<sl_pc, sl_req>>
         ELSE LET s == sl_deadline - cputime
              IN  /\ IF DeadlinePassed(s, sl_frac)
                       THEN sl_pc' = "return" /\ UNCHANGED sl_req
                       ELSE sl_pc' = "nanosleep" /\ sl_req' = SleepRequest(s)
                  /\ Alive
    /\ UNCHANGED <<sl_secs, sl_entry, sl_deadline, sl_naps, sl_status, sl_frac>>

\* nanosleep(&req, null) returns, at any time and with any status: the
\* status is not looked at
thread_sleep_nanosleep(st) ==
    /\ ~aborted
    /\ sl_pc = "nanosleep"
    /\ sl_pc' = AfterNanosleep
    /\ sl_naps' = IF sl_naps < MaxNaps THEN sl_naps + 1 ELSE sl_naps
    /\ sl_status' = st
    /\ Alive
    /\ UNCHANGED <<sl_secs, sl_entry, sl_deadline, sl_req, sl_frac>>

\* thread_sleep returns to its caller
thread_sleep_return ==
    /\ ~aborted
    /\ sl_pc = "return"
    /\ sl_pc' = "idle"
    /\ Alive
    /\ UNCHANGED <<sl_secs, sl_entry, sl_deadline, sl_req, sl_naps, sl_status, sl_frac>>

\* ------------------------------------------------------------ the OS side
\* One mutex m and one condition e, used as pthreads defines them.  A
\* thread unlocks only a mutex it holds and waits only with the mutex held;
\* a primitive may be used outside its life (before init, after dispose),
\* which the OS answers EINVAL or, where glibc does, 0.

Set(f, t, v) == [f EXCEPT ![t] = v]

Ready(t) == ~aborted /\ pc[t] = "ready"

MutexInUse == owner # NoThread \/ \E u \in Threads : pc[u] # "ready"

pthread_mutex_init ==
    IF mstate = "init" THEN (IF MutexInUse THEN {EBUSY} ELSE {0, EBUSY})
    ELSE {0, ENOMEM}

pthread_mutex_lock == IF mstate = "init" THEN {0} ELSE {EINVAL}

pthread_mutex_trylock ==
    IF mstate # "init" THEN {EINVAL}
    ELSE IF owner = NoThread THEN {0} ELSE {EBUSY}

pthread_mutex_unlock == IF mstate = "init" THEN {0} ELSE {EINVAL}

pthread_mutex_destroy ==
    IF mstate = "init" THEN (IF owner # NoThread THEN {EBUSY} ELSE {0})
    ELSE {0, EINVAL}

pthread_cond_init ==
    IF estate = "init" THEN (IF waiters # {} THEN {EBUSY} ELSE {0, EBUSY})
    ELSE {0, ENOMEM}

pthread_cond_signal == IF estate = "init" THEN {0} ELSE {0, EINVAL}

pthread_cond_wait == IF estate = "init" /\ mstate = "init" THEN {0} ELSE {EINVAL}

pthread_cond_destroy ==
    IF estate = "init" THEN (IF waiters # {} THEN {EBUSY} ELSE {0})
    ELSE {0, EINVAL}

\* the caller may unlock, wait
HoldsOrDead(t) == owner = t \/ mstate # "init"

\* ------------------------------------------------------------ mutex
mutex_init(t, st) ==
    /\ Ready(t)
    /\ st \in pthread_mutex_init
    /\ IF if_error_fatal(st)
         THEN Fatal(t, "mutex.init", st) /\ UNCHANGED <<mstate, owner>>
         ELSE mstate' = "init" /\ owner' = NoThread /\ Return(t, "mutex.init", st, NoThread)
    /\ UNCHANGED <<estate, waiters, pc, tw>>

\* pthread_mutex_lock: the mutex is taken at once, or the thread blocks
mutex_lock(t, st) ==
    /\ Ready(t)
    /\ st \in pthread_mutex_lock
    /\ IF if_error_fatal(st)
         THEN Fatal(t, "mutex.lock", st) /\ UNCHANGED <<owner, pc>>
         ELSE IF owner = NoThread
                THEN owner' = t /\ Return(t, "mutex.lock", st, t) /\ UNCHANGED pc
                ELSE pc' = Set(pc, t, "lock") /\ Alive /\ UNCHANGED <<owner>>
    /\ UNCHANGED <<mstate, estate, waiters, tw>>

\* the blocked pthread_mutex_lock gets the mutex and mutex_lock returns
mutex_lock_acquire(t) ==
    /\ ~aborted
    /\ pc[t] = "lock"
    /\ mstate = "init"
    /\ owner = NoThread
    /\ owner' = t
    /\ pc' = Set(pc, t, "ready")
    /\ Return(t, "mutex.lock", 0, t)
    /\ UNCHANGED <<mstate, estate, waiters, tw>>

\* the test of mutex_try_lock: every status but EBUSY goes to if_error_fatal
TryLockCheckedNever(status) == FALSE

TryLockChecked(status) == status # EBUSY

mutex_try_lock(t, st) ==
    /\ Ready(t)
    /\ st \in pthread_mutex_trylock
    /\ LET after == IF st = 0 THEN t ELSE owner
       IN  IF TryLockChecked(st) /\ if_error_fatal(st)
             THEN Fatal(t, "mutex.try_lock", st) /\ UNCHANGED <<owner>>
             ELSE owner' = after /\ Return(t, "mutex.try_lock", st, after)
    /\ UNCHANGED <<mstate, estate, waiters, pc, tw>>

mutex_unlock(t, st) ==
    /\ Ready(t)
    /\ HoldsOrDead(t)
    /\ st \in pthread_mutex_unlock
    /\ IF if_error_fatal(st)
         THEN Fatal(t, "mutex.unlock", st) /\ UNCHANGED <<owner>>
         ELSE owner' = NoThread /\ Return(t, "mutex.unlock", st, NoThread)
    /\ UNCHANGED <<mstate, estate, waiters, pc, tw>>

mutex_dispose(t, st) ==
    /\ Ready(t)
    /\ st \in pthread_mutex_destroy
    /\ IF if_error_fatal(st)
         THEN Fatal(t, "mutex.dispose", st) /\ UNCHANGED <<mstate>>
         ELSE mstate' = "disposed" /\ Return(t, "mutex.dispose", st, owner)
    /\ UNCHANGED <<owner, estate, waiters, pc, tw>>

\* ------------------------------------------------------------ event
event_init(t, st) ==
    /\ Ready(t)
    /\ st \in pthread_cond_init
    /\ IF if_error_fatal(st)
         THEN Fatal(t, "event.init", st) /\ UNCHANGED <<estate>>
         ELSE estate' = "init" /\ Return(t, "event.init", st, owner)
    /\ UNCHANGED <<mstate, owner, waiters, pc, tw>>

\* a timed_wait of u is under way: it was entered and has not returned
InTimedWait(u) == pc[u] \in {"tw", "tw_woken", "tw_after"}

\* the signal is seen by every timed_wait under way
Signalled == [u \in Threads |-> IF InTimedWait(u) THEN [tw[u] EXCEPT !.signaled = TRUE] ELSE tw[u]]

\* the waiter w that pthread_cond_signal unblocks (NoThread: nobody waits)
Wake(w) ==
    IF w = NoThread
      THEN UNCHANGED <<waiters, pc>> /\ tw' = Signalled
      ELSE /\ waiters' = waiters \ {w}
           /\ pc' = Set(pc, w, IF pc[w] = "tw" THEN "tw_woken" ELSE "cw_woken")
           /\ tw' = IF pc[w] = "tw"
                      THEN Set(Signalled, w, [Signalled[w] EXCEPT !.rt_wake = realtime])
                      ELSE Signalled

event_signal(t, st, w) ==
    /\ Ready(t)
    /\ st \in pthread_cond_signal
    /\ IF estate = "init" /\ waiters # {} THEN w \in waiters ELSE w = NoThread
    /\ IF if_error_fatal(st)
         THEN Fatal(t, "event.signal", st) /\ UNCHANGED <<waiters, pc, tw>>
         ELSE Wake(w) /\ Return(t, "event.signal", st, owner)
    /\ UNCHANGED <<mstate, owner, estate>>

\* pthread_cond_wait gives the mutex up and blocks
event_wait(t, st) ==
    /\ Ready(t)
    /\ HoldsOrDead(t)
    /\ st \in pthread_cond_wait
    /\ IF if_error_fatal(st)
         THEN Fatal(t, "event.wait", st) /\ UNCHANGED <<owner, waiters, pc>>
         ELSE /\ owner' = NoThread
              /\ waiters' = waiters \cup {t}
              /\ pc' = Set(pc, t, "cw")
              /\ Alive
    /\ UNCHANGED <<mstate, estate, tw>>

\* the owner of the mutex when the OS wait has returned to the thread
OwnerAfterWaitNobody(t) == NoThread

OwnerAfterWait(t) == t

\* woken, pthread_cond_wait takes the mutex again and event_wait returns;
\* a mutex disposed of meanwhile makes it fail
event_wait_reacquire(t) ==
    /\ ~aborted
    /\ pc[t] = "cw_woken"
    /\ IF mstate # "init"
         THEN Fatal(t, "event.wait", EINVAL) /\ UNCHANGED <<owner, pc>>
         ELSE /\ owner = NoThread
              /\ owner' = OwnerAfterWait(t)
              /\ pc' = Set(pc, t, "ready")
              /\ Return(t, "event.wait", 0, OwnerAfterWait(t))
    /\ UNCHANGED <<mstate, estate, waiters, tw>>

\* POSIX lets a wait on a condition wake with nobody having signalled
cond_spurious_wake(t) ==
    /\ ~aborted
    /\ pc[t] \in {"cw", "tw"}
    /\ waiters' = waiters \ {t}
    /\ pc' = Set(pc, t, IF pc[t] = "tw" THEN "tw_woken" ELSE "cw_woken")
    /\ tw' = IF pc[t] = "tw"
               THEN Set(tw, t, [tw[t] EXCEPT !.spurious = TRUE, !.rt_wake = realtime])
               ELSE tw
    /\ Alive
    /\ UNCHANGED <<mstate, owner, estate>>

event_dispose(t, st) ==
    /\ Ready(t)
    /\ st \in pthread_cond_destroy
    /\ IF if_error_fatal(st)
         THEN Fatal(t, "event.dispose", st) /\ UNCHANGED <<estate>>
         ELSE estate' = "disposed" /\ Return(t, "event.dispose", st, owner)
    /\ UNCHANGED <<mstate, owner, waiters, pc, tw>>

\* ------------------------------------------------------------ event.timed_wait
TwDurations == {0, Quantum, 2 * Quantum}

NoTw == [seconds |-> 0, now |-> 0, ts |-> NoRequest, time |-> 0, wall0 |-> 0,
         signaled |-> FALSE, spurious |-> FALSE, result |-> 0, rt_wake |-> 0,
         warned |-> FALSE]

\* uint64_t abs_ns = now_ns + wait_ns;
AbsNsNoWait(now_ns, wait_ns) == now_ns

AbsNs(now_ns, wait_ns) == now_ns + wait_ns

\* ts.tv_sec = abs_ns / nsec_per_sec; ts.tv_nsec = abs_ns % nsec_per_sec;
AbsTimespecNoCarry(abs_ns) ==
    [tv_sec |-> abs_ns \div NSEC_PER_SEC, tv_nsec |-> abs_ns]

AbsTimespec(abs_ns) ==
    [tv_sec |-> abs_ns \div NSEC_PER_SEC, tv_nsec |-> abs_ns % NSEC_PER_SEC]

\* the time a timespec stands for, in nanoseconds
TimespecNs(ts) == ts.tv_sec * NSEC_PER_SEC + ts.tv_nsec

\* what pthread_cond_timedwait answers without waiting
pthread_cond_timedwait(ts) ==
    IF estate = "init" /\ mstate = "init" /\ ts.tv_nsec >= 0 /\ ts.tv_nsec < NSEC_PER_SEC
      THEN {0} ELSE {EINVAL}

\* lines 160-169: CLOCK_REALTIME is read, the absolute time computed, the
\* process clock read, and pthread_cond_timedwait entered
event_timed_wait(t, seconds, st1, st2, st) ==
    /\ Ready(t)
    /\ HoldsOrDead(t)
    /\ LET ts == AbsTimespec(AbsNs(realtime, seconds))
           rec == [NoTw EXCEPT !.seconds = seconds, !.now = realtime, !.ts = ts,
                               !.time = cputime, !.wall0 = wall]
       IN  /\ st \in pthread_cond_timedwait(ts)
           /\ IF if_error_fatal(st1)
                THEN /\ FatalIn(t, "event.timed_wait", "clock_gettime", st1)
                     /\ UNCHANGED <<owner, waiters, pc, tw>>
                ELSE IF if_error_fatal(st2)
                THEN /\ FatalIn(t, "event.timed_wait", "process_clock.time", st2)
                     /\ UNCHANGED <<owner, waiters, pc, tw>>
                ELSE IF st # 0
                THEN /\ tw' = Set(tw, t, [rec EXCEPT !.result = st])
                     /\ pc' = Set(pc, t, "tw_after")
                     /\ Alive
                     /\ UNCHANGED <<owner, waiters>>
                ELSE /\ tw' = Set(tw, t, rec)
                     /\ owner' = NoThread
                     /\ waiters' = waiters \cup {t}
                     /\ pc' = Set(pc, t, "tw")
                     /\ Alive
    /\ UNCHANGED <<mstate, estate>>

\* CLOCK_REALTIME has reached the absolute time: the OS wait times out
timed_wait_timeout(t) ==
    /\ ~aborted
    /\ pc[t] = "tw"
    /\ realtime >= TimespecNs(tw[t].ts)
    /\ waiters' = waiters \ {t}
    /\ pc' = Set(pc, t, "tw_woken")
    /\ tw' = Set(tw, t, [tw[t] EXCEPT !.result = ETIMEDOUT, !.rt_wake = realtime])
    /\ Alive
    /\ UNCHANGED <<mstate, owner, estate>>

\* where event_timed_wait goes when pthread_cond_timedwait has returned:
\* on to the statements after the call, there is no loop around it
AfterTimedwaitRetry == "tw"

AfterTimedwait == "tw_after"

\* woken or timed out, pthread_cond_timedwait takes the mutex again and
\* returns its status; a mutex disposed of meanwhile makes it fail
timed_wait_reacquire(t) ==
    /\ ~aborted
    /\ pc[t] = "tw_woken"
    /\ IF mstate # "init"
         THEN tw' = Set(tw, t, [tw[t] EXCEPT !.result = EINVAL]) /\ UNCHANGED owner
         ELSE owner = NoThread /\ owner' = OwnerAfterWait(t) /\ UNCHANGED tw
    /\ pc' = Set(pc, t, AfterTimedwait)
    /\ Alive
    /\ UNCHANGED <<mstate, estate, waiters>>

\* if (timedwait_result != 0 && timedwait_result != ETIMEDOUT)
UnexpectedNever(result) == result # 0 /\ result = ETIMEDOUT

Unexpected(result) == result # 0 /\ result # ETIMEDOUT

\* traceln(...) prints in a build that defines DEBUG or _DEBUG
traceln == debug

\* if (timedwait_result == ETIMEDOUT && time < seconds) traceln("WARNING: ...")
EarlyWake(result, time, seconds) == result = ETIMEDOUT /\ time < seconds

\* lines 170-181: the process clock is read again, an unexpected status is
\* fatal, an early timeout is traced, the status is the value returned
event_timed_wait_after(t, st3) ==
    /\ ~aborted
    /\ pc[t] = "tw_after"
    /\ LET time == cputime - tw[t].time
           result == tw[t].result
       IN  IF if_error_fatal(st3)
             THEN /\ FatalIn(t, "event.timed_wait", "process_clock.time", st3)
                  /\ UNCHANGED <<pc, tw>>
             ELSE IF Unexpected(result) /\ if_error_fatal(result)
             THEN /\ FatalIn(t, "event.timed_wait", "pthread_cond_timedwait", result)
                  /\ UNCHANGED <<pc, tw>>
             ELSE /\ tw' = Set(tw, t, [tw[t] EXCEPT !.time = time,
                           !.warned = EarlyWake(result, time, tw[t].seconds) /\ traceln])
                  /\ pc' = Set(pc, t, "tw_ret")
                  /\ Return(t, "event.timed_wait", result, owner)
    /\ UNCHANGED <<mstate, owner, estate, waiters>>

\* return timedwait_result;
event_timed_wait_return(t) ==
    /\ ~aborted
    /\ pc[t] = "tw_ret"
    /\ pc' = Set(pc, t, "ready")
    /\ tw' = Set(tw, t, NoTw)
    /\ Alive
    /\ UNCHANGED <<mstate, owner, estate, waiters>>

\* ------------------------------------------------------------ process_clock
\* time_in_seconds as a call of its own: clock_gettime is checked
time_in_seconds(t, st) ==
    /\ Ready(t)
    /\ IF if_error_fatal(st)
         THEN Fatal(t, "clock.time", st)
         ELSE Return(t, "clock.time", st, owner)
    /\ UNCHANGED <<mstate, owner, estate, waiters, pc, tw>>

\* time_since_epoch: the status of clock_gettime is not looked at
time_since_epoch(t, st) ==
    /\ Ready(t)
    /\ Return(t, "clock.time_since_epoch", st, owner)
    /\ UNCHANGED <<mstate, owner, estate, waiters, pc, tw>>

\* ------------------------------------------------------------ random_generator
\* The 48-bit generator behind next_int32 ... next_seeded_double.  A 48-bit
\* value is the tuple <<low, mid, high>> of its 16-bit words.
W16 == 65536
W24 == 16777216

\* initial_seed 0x1234ABCD330E, mult 0x5DEECE66D, add 0xB
InitialSeedSwapped == <<4660, 43981, 13070>>

InitialSeed == <<13070, 43981, 4660>>
Multiplier == <<58989, 57068, 5>>
Additive == 11

\* a 32-bit accumulator, as its two 16-bit halves; a sum wraps at 2^32
Acc(hi, lo) == [hi |-> hi, lo |-> lo]

AccAdd(p, q) ==
    LET lo == p.lo + q.lo
    IN  Acc((p.hi + q.hi + lo \div W16) % W16, lo % W16)

\* the product of two 16-bit words, in a 32-bit accumulator
Product(a, b) ==
    LET pl == (a % 256) * b
        ph == (a \div 256) * b
        lo == pl + (ph % 256) * 256
    IN  Acc(ph \div 256 + lo \div W16, lo % W16)

\* accu >>= 16
Carry(p) == Acc(0, p.hi)

\* the successor of state x: x * m + c mod 2^48, word by word, the
\* carries going up
NextStateNoCarry(x, m, c) ==
    LET a0 == AccAdd(Product(m[1], x[1]), Acc(0, c))
        a1 == AccAdd(Product(m[1], x[2]), Product(m[2], x[1]))
        a2 == AccAdd(AccAdd(Product(m[1], x[3]), Product(m[2], x[2])), Product(m[3], x[1]))
    IN  <<a0.lo, a1.lo, a2.lo>>

NextState(x, m, c) ==
    LET a0 == AccAdd(Product(m[1], x[1]), Acc(0, c))
        a1 == AccAdd(AccAdd(Carry(a0), Product(m[1], x[2])), Product(m[2], x[1]))
        a2 == AccAdd(AccAdd(AccAdd(Carry(a1), Product(m[1], x[3])), Product(m[2], x[2])),
                     Product(m[3], x[1]))
    IN  <<a0.lo, a1.lo, a2.lo>>

\* next_int32 of the new state: its bits 47..16, a 32-bit pattern read as
\* a signed number (negative when the top bit is set)
Int32Of(x) == Acc(x[3], x[2])

\* next_uint32 of the new state: its bits 47..17
Uint32OfBit16(x) == Acc(x[3], x[2])

Uint32Of(x) == Acc(x[3] \div 2, (x[3] % 2) * 32768 + x[2] \div 2)

\* next_double of the new state: low * 2^-48 + mid * 2^-32 + high * 2^-16.
\* The sum is exact in a double; it is kept as its numerator over 2^48, in
\* two 24-bit halves
DoubleOf(x) == [h |-> x[3] * 256 + x[2] \div 256, l |-> (x[2] % 256) * W16 + x[1]]

NoDouble == [h |-> 0, l |-> 0]

NoOut == [fn |-> "none", seeded |-> FALSE, prev |-> <<0, 0, 0>>, next |-> <<0, 0, 0>>,
          int |-> Acc(0, 0), dbl |-> NoDouble]

Fns == {"next_int32", "next_uint32", "next_double"}

\* one draw from state x: the new state and the value
Draw(fn, seeded, x) ==
    LET n == NextState(x, mult, add)
    IN  [fn |-> fn, seeded |-> seeded, prev |-> x, next |-> n,
         int |-> IF fn = "next_int32" THEN Int32Of(n)
                 ELSE IF fn = "next_uint32" THEN Uint32Of(n) ELSE Acc(0, 0),
         dbl |-> IF fn = "next_double" THEN DoubleOf(n) ELSE NoDouble]

\* next_int32(), next_uint32(), next_double(): the process-wide seed
next_global(fn) ==
    /\ draws < MaxDraws
    /\ draws' = draws + 1
    /\ out' = Draw(fn, FALSE, gseed)
    /\ gseed' = out'.next
    /\ gdraws' = gdraws + 1
    /\ UNCHANGED <<mult, add, useed>>

\* next_seeded_int32(&seed), ...: the caller's seed
next_seeded(fn) ==
    /\ draws < MaxDraws
    /\ draws' = draws + 1
    /\ out' = Draw(fn, TRUE, useed)
    /\ useed' = out'.next
    /\ UNCHANGED <<mult, add, gseed, gdraws>>

\* ------------------------------------------------------------ threads drawing
\* Threads that draw at the same time, each from a seed of its own and
\* from the process-wide seed.  A draw reads the seed, computes, and writes
\* the seed back; nothing is locked in between.
ThreadSeeds == {<<1, 0, 0>>, <<13070, 43981, 4660>>, <<65535, 65535, 65535>>}

\* the seed a next_seeded_xxxx(&seed) call of thread t reads: the caller's
SeedReadGlobal(t) == gseed

SeedRead(t) == tseed[t]

\* what a global draw of thread t writes back to the process-wide seed
GlobalStoreAtomic(t) == NextState(gseed, mult, add)

GlobalStore(t) == loc[t].next

\* next_seeded_xxxx(&seed) of thread t reads its seed and computes
seeded_load(t, fn) ==
    /\ rpc[t] = "idle"
    /\ draws < MaxDraws
    /\ draws' = draws + 1
    /\ loc' = Set(loc, t, Draw(fn, TRUE, SeedRead(t)))
    /\ rpc' = Set(rpc, t, "s_loaded")
    /\ UNCHANGED <<mult, add, gseed, useed, out, gdraws, seed0, tseed, last, sdraws>>

\* ... and writes the new state to the caller's seed
seeded_store(t) ==
    /\ rpc[t] = "s_loaded"
    /\ tseed' = Set(tseed, t, loc[t].next)
    /\ last' = Set(last, t, loc[t])
    /\ sdraws' = Set(sdraws, t, sdraws[t] + 1)
    /\ rpc' = Set(rpc, t, "idle")
    /\ UNCHANGED <<mult, add, gseed, useed, draws, out, gdraws, seed0, loc>>

\* next_xxxx() of thread t reads the process-wide seed and computes
global_load(t, fn) ==
    /\ rpc[t] = "idle"
    /\ draws < MaxDraws
    /\ draws' = draws + 1
    /\ loc' = Set(loc, t, Draw(fn, FALSE, gseed))
    /\ rpc' = Set(rpc, t, "g_loaded")
    /\ UNCHANGED <<mult, add, gseed, useed, out, gdraws, seed0, tseed, last, sdraws>>

\* ... and writes the new state to the process-wide seed
global_store(t) ==
    /\ rpc[t] = "g_loaded"
    /\ gseed' = GlobalStore(t)
    /\ gdraws' = gdraws + 1
    /\ last' = Set(last, t, loc[t])
    /\ rpc' = Set(rpc, t, "idle")
    /\ UNCHANGED <<mult, add, useed, draws, out, seed0, tseed, loc, sdraws>>

\* ------------------------------------------------------------ str.equal
\* Two buffers of BufLen characters; a pointer is the number of its
\* buffer.  Character 0 is the terminator.
BufLen == 3

Chars == {0, 1, 2}

Pointers == {1, 2}

Buffers == [1..BufLen -> Chars]

Terminated(b) == \E i \in 1..BufLen : b[i] = 0

\* strncmp(a, b, n) from character i on: at most n characters are compared
\* and nothing after a terminator
RECURSIVE strncmp(_, _, _, _)
strncmp(a, b, i, n) ==
    IF i > n THEN 0
    ELSE IF a[i] # b[i] THEN a[i] - b[i]
    ELSE IF a[i] = 0 THEN 0
    ELSE strncmp(a, b, i + 1, n)

\* strcmp(a, b) from character i on, for terminated strings
RECURSIVE strcmp(_, _, _)
strcmp(a, b, i) ==
    IF a[i] # b[i] THEN a[i] - b[i]
    ELSE IF a[i] = 0 THEN 0
    ELSE strcmp(a, b, i + 1)

\* the condition of the ?: in str_equal; || binds tighter than ?:
UsesStrncmpAlways(p1, p2, bytes) == TRUE

UsesStrncmp(p1, p2, bytes) == p1 = p2 \/ bytes > 0

\* return s1 == s2 || bytes > 0 ? strncmp(s1, s2, bytes) == 0 : strcmp(s1, s2) == 0;
str_equal(p1, p2, bytes) ==
    IF UsesStrncmp(p1, p2, bytes)
      THEN strncmp(s_mem[p1], s_mem[p2], 1, bytes) = 0
      ELSE strcmp(s_mem[p1], s_mem[p2], 1) = 0

\* the call str.equal(s1, s2, bytes) returns
str_equal_call ==
    /\ s_pc = "call"
    /\ s_pc' = "done"
    /\ s_result' = str_equal(s_p1, s_p2, s_bytes)
    /\ UNCHANGED <<s_mem, s_p1, s_p2, s_bytes>>

\* the caller goes on to the next call, with other arguments
str_equal_next(p1, p2, bytes) ==
    /\ s_pc \in {"idle", "done"}
    /\ bytes = 0 /\ p1 # p2 => Terminated(s_mem[p1]) /\ Terminated(s_mem[p2])
    /\ s_pc' = "call"
    /\ s_p1' = p1
    /\ s_p2' = p2
    /\ s_bytes' = bytes
    /\ s_result' = FALSE
    /\ UNCHANGED s_mem

\* ------------------------------------------------------------ memmap
\* the thread that maps files
Mapper == 1

\* st_size, written as the 16-bit halves of a 32-bit count: an empty file,
\* one byte, and the sizes around 1ULL << 31
FileSizes == {Acc(0, 0), Acc(0, 1), Acc(32767, 65535), Acc(32768, 0), Acc(32768, 1)}

\* s.st_size == 0 || s.st_size > (1ULL << ((sizeof(int) * 8) - 1))
BadSize(size) ==
    \/ size.hi = 0 /\ size.lo = 0
    \/ size.hi > 32768
    \/ size.hi = 32768 /\ size.lo > 0

\* errno after open, fstat, mmap and close; 0 stands for success
OpenErrors == {0, ENOENT, ENOMEM}
FstatErrors == {0, EIO}
MmapErrors == {0, ENOMEM, EINVAL}
CloseErrors == {0, EIO}

\* what mmap returns: an address, MAP_FAILED, or (nothing forbids it) null
MmapResults == {"addr", "MAP_FAILED", "null"}

\* the state of a call: the descriptor f, how often close(f) was called,
\* errno, *r, s.st_size, *bytes, *data and the path the call took
NoMap == [pc |-> "idle", fd |-> "none", opened |-> FALSE, closes |-> 0, errno |-> 0,
          r |-> 0, size |-> Acc(0, 0), bytes |-> Acc(0, 0), data |-> "null",
          path |-> "none"]

\* if_error_return(condition, _undo_, _do_), the condition being true:
\* { _do_ _undo_ return; }
if_error_return_undo_only(undo, do) == undo

if_error_return(undo, do) == do \o undo

\* the statements of the blocks: close(f), which leaves errno alone unless
\* it fails with cst, *r = errno, and *r = E2BIG
RECURSIVE Run(_, _, _)
Run(stmts, m, cst) ==
    IF stmts = <<>> THEN m
    ELSE LET stmt == Head(stmts)
             m1 == IF stmt = "close"
                     THEN [m EXCEPT !.closes = @ + 1,
                                    !.fd = IF @ = "open" THEN "closed" ELSE "bad",
                                    !.errno = IF cst # 0 THEN cst ELSE @]
                   ELSE IF stmt = "r = errno"
                     THEN [m EXCEPT !.r = m.errno]
                   ELSE [m EXCEPT !.r = E2BIG]
         IN  Run(Tail(stmts), m1, cst)

\* lines 231-234: the parameters must be fresh (checked by the assertion,
\* after which the test of line 232 is false), the file is opened
memmap_file_open(data, bytes, e) ==
    /\ ~aborted
    /\ mm.pc = "idle"
    /\ IF ~(data = "null" /\ bytes = 0)
         THEN /\ FatalIn(Mapper, "memmap.file_readonly", "assertion", EINVAL)
              /\ UNCHANGED mm
         ELSE /\ mm' = IF e # 0
                         THEN [Run(if_error_return(<<"r = errno">>, <<>>),
                                   [NoMap EXCEPT !.errno = e], 0)
                                 EXCEPT !.pc = "return", !.path = "open"]
                         ELSE [NoMap EXCEPT !.pc = "fstat", !.fd = "open", !.opened = TRUE]
              /\ Alive

\* lines 235-237: fstat, and the test of the size
memmap_file_fstat(e, size, cst) ==
    /\ ~aborted
    /\ mm.pc = "fstat"
    /\ mm' = IF e # 0
               THEN [Run(if_error_return(<<"r = errno">>, <<"close">>),
                         [mm EXCEPT !.errno = e], cst)
                       EXCEPT !.pc = "return", !.path = "fstat"]
             ELSE IF BadSize(size)
               THEN [Run(if_error_return(<<"r = E2BIG">>, <<"close">>),
                         [mm EXCEPT !.size = size], cst)
                       EXCEPT !.pc = "return", !.path = "size"]
             ELSE [mm EXCEPT !.pc = "mmap", !.size = size]
    /\ Alive

\* lines 238-242: *bytes is set, the file is mapped, a null result returns
\* through if_error_return; any other result, MAP_FAILED too, goes on to
\* *r = close(f), and a failed close fails the assertion
memmap_file_mmap(res, e, cst) ==
    /\ ~aborted
    /\ mm.pc = "mmap"
    /\ (res = "MAP_FAILED") = (e # 0)
    /\ LET m0 == [mm EXCEPT !.bytes = mm.size, !.data = res, !.errno = e]
       IN  IF res = "null"
             THEN /\ mm' = [Run(if_error_return(<<"r = errno">>, <<"close">>), m0, cst)
                              EXCEPT !.pc = "return", !.path = "null"]
                  /\ Alive
             ELSE LET m1 == Run(<<"close">>, m0, cst)
                  IN  IF cst # 0
                        THEN /\ mm' = [m1 EXCEPT !.r = 0 - 1, !.pc = "abort", !.path = "close"]
                             /\ FatalIn(Mapper, "memmap.file_readonly", "assertion", cst)
                        ELSE /\ mm' = [m1 EXCEPT !.r = 0, !.pc = "return",
                                          !.path = IF res = "addr" THEN "mapped" ELSE "map_failed"]
                             /\ Alive

\* memmap_file_readonly: return r;
memmap_file_readonly_return ==
    /\ ~aborted
    /\ mm.pc = "return"
    /\ mm' = [mm EXCEPT !.pc = "idle"]
    /\ Return(Mapper, "memmap.file_readonly", mm.r, owner)

InitMap == mm = NoMap

InitStr ==
    /\ s_mem = [p \in Pointers |-> [i \in 1..BufLen |-> 0]]
    /\ s_p1 = 1
    /\ s_p2 = 1
    /\ s_bytes = 0
    /\ s_pc = "idle"
    /\ s_result = FALSE

InitThr ==
    /\ seed0 = [t \in Threads |-> <<0, 0, 0>>]
    /\ tseed = seed0
    /\ rpc = [t \in Threads |-> "idle"]
    /\ loc = [t \in Threads |-> NoOut]
    /\ last = [t \in Threads |-> NoOut]
    /\ sdraws = [t \in Threads |-> 0]

InitExt ==
    /\ InitThr
    /\ InitStr
    /\ InitMap

\* ------------------------------------------------------------ specifications
InitClocks ==
    /\ wall = 0
    /\ adj = 0
    /\ cputime = 0
    /\ ticks = 0

InitSleep ==
    /\ sl_pc = "idle"
    /\ sl_secs = 0
    /\ sl_entry = 0
    /\ sl_deadline = 0
    /\ sl_frac = 0
    /\ sl_req = NoRequest
    /\ sl_naps = 0
    /\ sl_status = 0

InitSync ==
    /\ mstate = "uninit"
    /\ owner = NoThread
    /\ estate = "uninit"
    /\ waiters = {}
    /\ pc = [t \in Threads |-> "ready"]
    /\ tw = [t \in Threads |-> NoTw]

InitRng ==
    /\ mult = Multiplier
    /\ add = Additive
    /\ gseed = InitialSeed
    /\ useed = <<0, 0, 0>>
    /\ draws = 0
    /\ out = NoOut
    /\ gdraws = 0

Init ==
    /\ aborted = FALSE
    /\ died = NoDeath
    /\ ret = NoRet
    /\ debug \in BOOLEAN
    /\ InitClocks
    /\ InitSleep
    /\ InitSync
    /\ InitRng
    /\ InitExt

\* one thread sleeping while the clocks advance
NextSleep ==
    \/ \E step \in ClockSteps, k \in 0..NCpu :
          Tick(step, k) /\ Alive /\ UNCHANGED <<debug, sleepvars, syncvars, rngvars>>
    \/ \E secs \in SleepDurations, frac \in SubNanos, st \in ClockStatus :
          thread_sleep_enter(secs, frac, st) /\ UNCHANGED <<debug, clockvars, syncvars, rngvars>>
    \/ \E st \in ClockStatus :
          thread_sleep_loop(st) /\ UNCHANGED <<debug, clockvars, syncvars, rngvars>>
    \/ \E st \in NanosleepStatus :
          thread_sleep_nanosleep(st) /\ UNCHANGED <<debug, clockvars, syncvars, rngvars>>
    \/ thread_sleep_return /\ UNCHANGED <<debug, clockvars, syncvars, rngvars>>

SpecSleep == Init /\ [][NextSleep]_vars

\* the durations slept under the fair specification
LiveDurations == {0 - Quantum, 0, 100000}

\* sleeps are entered while the process clock reads less than this, ns
LiveEntryLimit == 100000

\* the process clock moves on while a sleep is under way and its deadline
\* is not yet behind: the process uses the CPU before its sleep is over
ClockProgress ==
    \E step \in ClockSteps, k \in 1..NCpu :
        /\ ~aborted
        /\ sl_pc \in {"loop", "nanosleep"}
        /\ cputime <= sl_deadline
        /\ wall' = wall + step
        /\ cputime' = cputime + k * step
        /\ Alive
        /\ UNCHANGED <<adj, ticks, debug, sleepvars, syncvars, rngvars>>

\* the steps thread_sleep takes once entered; nanosleep returns
SleeperStep ==
    \/ \E st \in ClockStatus :
          thread_sleep_loop(st) /\ UNCHANGED <<debug, clockvars, syncvars, rngvars>>
    \/ \E st \in NanosleepStatus :
          thread_sleep_nanosleep(st) /\ UNCHANGED <<debug, clockvars, syncvars, rngvars>>
    \/ thread_sleep_return /\ UNCHANGED <<debug, clockvars, syncvars, rngvars>>

\* sleeps entered early in the life of the process, the thread being
\* scheduled, every nanosleep returning and the process clock advancing
NextSleepLive ==
    \/ ClockProgress
    \/ \E secs \in LiveDurations, frac \in SubNanos, st \in ClockStatus :
          /\ cputime < LiveEntryLimit
          /\ thread_sleep_enter(secs, frac, st)
          /\ UNCHANGED <<debug, clockvars, syncvars, rngvars>>
    \/ SleeperStep

SpecSleepLive ==
    Init /\ [][NextSleepLive]_vars /\ WF_vars(ClockProgress) /\ WF_vars(SleeperStep)

Statuses == {0, EBUSY, EINVAL, ENOMEM}

\* what the mutex and event operations leave alone
SyncFrame == UNCHANGED <<debug, clockvars, sleepvars, rngvars>>

\* the calls and steps of a thread that uses every operation
ThreadStep(t) ==
    \/ \E st \in Statuses : mutex_init(t, st) /\ SyncFrame
    \/ \E st \in Statuses : mutex_dispose(t, st) /\ SyncFrame
    \/ \E st \in Statuses : event_init(t, st) /\ SyncFrame
    \/ \E st \in Statuses : event_wait(t, st) /\ SyncFrame
    \/ event_wait_reacquire(t) /\ SyncFrame
    \/ cond_spurious_wake(t) /\ SyncFrame
    \/ \E st \in Statuses : event_dispose(t, st) /\ SyncFrame
    \/ \E seconds \in TwDurations, st1 \in ClockStatus, st2 \in ClockStatus, st \in Statuses :
          event_timed_wait(t, seconds, st1, st2, st) /\ SyncFrame
    \/ timed_wait_timeout(t) /\ SyncFrame
    \/ timed_wait_reacquire(t) /\ SyncFrame
    \/ \E st3 \in ClockStatus : event_timed_wait_after(t, st3) /\ SyncFrame
    \/ event_timed_wait_return(t) /\ SyncFrame

\* the calls and steps of any thread: it locks, unlocks and signals
OtherStep(t) ==
    \/ \E st \in Statuses : mutex_lock(t, st) /\ SyncFrame
    \/ mutex_lock_acquire(t) /\ SyncFrame
    \/ \E st \in Statuses : mutex_try_lock(t, st) /\ SyncFrame
    \/ \E st \in Statuses : mutex_unlock(t, st) /\ SyncFrame
    \/ \E st \in Statuses, w \in Threads \cup {NoThread} : event_signal(t, st, w) /\ SyncFrame

\* a timed wait is under way: what the clocks do at other times changes
\* no outcome, and the specification lets time pass only then
Waiting == \E u \in Threads : InTimedWait(u)

\* two threads on one mutex and one event, the clocks advancing and
\* CLOCK_REALTIME being set
NextSync ==
    \/ \E k \in 0..NCpu :
          Waiting /\ Tick(Quantum, k) /\ Alive /\ UNCHANGED <<debug, sleepvars, syncvars, rngvars>>
    \/ \E delta \in {0 - Quantum, Quantum} :
          Waiting /\ ClockAdjust(delta) /\ Alive /\ UNCHANGED <<debug, sleepvars, syncvars, rngvars>>
    \/ \E t \in Callers : ThreadStep(t)
    \/ \E t \in Threads : OtherStep(t)

SpecSync == Init /\ [][NextSync]_vars
\* the 16-bit words the caller's seed is made of
SeedWords == {0, 1, 255, 13070, 32768, 43981, 65535}

InitSeeds ==
    /\ aborted = FALSE
    /\ died = NoDeath
    /\ ret = NoRet
    /\ debug \in BOOLEAN
    /\ InitClocks
    /\ InitSleep
    /\ InitSync
    /\ mult = Multiplier
    /\ add = Additive
    /\ gseed = InitialSeed
    /\ useed \in SeedWords \X SeedWords \X SeedWords
    /\ draws = 0
    /\ out = NoOut
    /\ gdraws = 0
    /\ InitExt

RngFrame == UNCHANGED <<procvars, debug, clockvars, sleepvars, syncvars, extvars>>

\* draws from the process-wide seed and from a seed of the caller's
NextRng ==
    \/ \E fn \in Fns : next_global(fn) /\ RngFrame
    \/ \E fn \in Fns : next_seeded(fn) /\ RngFrame

SpecRng == InitSeeds /\ [][NextRng]_vars

\* one thread calling every operation in turn, sleeping in between
Caller == 1

SeqFrame == UNCHANGED <<debug, clockvars, syncvars, rngvars>>

Idle == sl_pc = "idle"

SeqStep(t) ==
    \/ \E st \in Statuses : Idle /\ mutex_init(t, st) /\ SyncFrame
    \/ \E st \in Statuses : Idle /\ mutex_lock(t, st) /\ SyncFrame
    \/ \E st \in Statuses : Idle /\ mutex_try_lock(t, st) /\ SyncFrame
    \/ \E st \in Statuses : Idle /\ mutex_unlock(t, st) /\ SyncFrame
    \/ \E st \in Statuses : Idle /\ mutex_dispose(t, st) /\ SyncFrame
    \/ \E st \in Statuses : Idle /\ event_init(t, st) /\ SyncFrame
    \/ \E st \in Statuses : Idle /\ event_signal(t, st, NoThread) /\ SyncFrame
    \/ \E st \in Statuses : Idle /\ event_wait(t, st) /\ SyncFrame
    \/ event_wait_reacquire(t) /\ SyncFrame
    \/ cond_spurious_wake(t) /\ SyncFrame
    \/ \E st \in Statuses : Idle /\ event_dispose(t, st) /\ SyncFrame
    \/ \E seconds \in TwDurations, st1 \in ClockStatus, st2 \in ClockStatus, st \in Statuses :
          Idle /\ event_timed_wait(t, seconds, st1, st2, st) /\ SyncFrame
    \/ timed_wait_timeout(t) /\ SyncFrame
    \/ timed_wait_reacquire(t) /\ SyncFrame
    \/ \E st3 \in ClockStatus : event_timed_wait_after(t, st3) /\ SyncFrame
    \/ event_timed_wait_return(t) /\ SyncFrame
    \/ \E st \in ClockStatus : Idle /\ time_in_seconds(t, st) /\ SyncFrame
    \/ \E st \in ClockStatus : Idle /\ time_since_epoch(t, st) /\ SyncFrame
    \/ \E secs \in {100000, Quantum}, st \in ClockStatus :
          pc[t] = "ready" /\ thread_sleep_enter(secs, 0, st) /\ SeqFrame
    \/ \E st \in ClockStatus : thread_sleep_loop(st) /\ SeqFrame
    \/ \E st \in NanosleepStatus : thread_sleep_nanosleep(st) /\ SeqFrame
    \/ thread_sleep_return /\ SeqFrame

\* the thread is in a timed wait or asleep
Timing == InTimedWait(Caller) \/ ~Idle

NextSeq ==
    \/ \E k \in {0, 1} :
          Timing /\ Tick(Quantum, k) /\ Alive /\ UNCHANGED <<debug, sleepvars, syncvars, rngvars>>
    \/ SeqStep(Caller)

SpecSeq == Init /\ [][NextSeq]_vars

\* every thread starts with a seed of its own
InitThreadSeeds ==
    /\ aborted = FALSE
    /\ died = NoDeath
    /\ ret = NoRet
    /\ debug = FALSE
    /\ InitClocks
    /\ InitSleep
    /\ InitSync
    /\ mult = Multiplier
    /\ add = Additive
    /\ gseed = InitialSeed
    /\ useed = <<0, 0, 0>>
    /\ draws = 0
    /\ out = NoOut
    /\ gdraws = 0
    /\ seed0 \in [Threads -> ThreadSeeds]
    /\ tseed = seed0
    /\ rpc = [t \in Threads |-> "idle"]
    /\ loc = [t \in Threads |-> NoOut]
    /\ last = [t \in Threads |-> NoOut]
    /\ sdraws = [t \in Threads |-> 0]
    /\ InitStr
    /\ InitMap

ThrFrame == UNCHANGED <<procvars, debug, clockvars, sleepvars, syncvars, strvars, mapvars>>

\* threads drawing from their own seeds and from the process-wide seed,
\* in every interleaving of their reads and writes
NextRngThreads ==
    \/ \E t \in Threads, fn \in Fns : seeded_load(t, fn) /\ ThrFrame
    \/ \E t \in Threads : seeded_store(t) /\ ThrFrame
    \/ \E t \in Threads, fn \in Fns : global_load(t, fn) /\ ThrFrame
    \/ \E t \in Threads : global_store(t) /\ ThrFrame

SpecRngThreads == InitThreadSeeds /\ [][NextRngThreads]_vars

\* any two buffers, and calls with any pointers and byte counts for which
\* the call is defined: with 0 bytes both strings are terminated
InitStrings ==
    /\ aborted = FALSE
    /\ died = NoDeath
    /\ ret = NoRet
    /\ debug = FALSE
    /\ InitClocks
    /\ InitSleep
    /\ InitSync
    /\ InitRng
    /\ InitThr
    /\ s_mem \in [Pointers -> Buffers]
    /\ s_p1 = 1
    /\ s_p2 = 1
    /\ s_bytes = 0
    /\ s_pc = "idle"
    /\ s_result = FALSE
    /\ InitMap

StrFrame == UNCHANGED <<procvars, debug, clockvars, sleepvars, syncvars, mult, add, gseed,
                        useed, draws, out, gdraws, thrvars, mapvars>>

NextStr ==
    \/ str_equal_call /\ StrFrame
    \/ \E p1 \in Pointers, p2 \in Pointers, bytes \in 0..BufLen :
          str_equal_next(p1, p2, bytes) /\ StrFrame

SpecStr == InitStrings /\ [][NextStr]_vars

\* what memmap.file_readonly leaves alone
MapFrame == UNCHANGED <<debug, clockvars, sleepvars, syncvars, mult, add, gseed,
                        useed, draws, out, gdraws, thrvars, strvars>>

\* calls of memmap.file_readonly, one after the other, with every outcome
\* of open, fstat, mmap and close
NextMap ==
    \/ \E data \in {"null", "addr"}, bytes \in {0, 1}, e \in OpenErrors :
          memmap_file_open(data, bytes, e) /\ MapFrame
    \/ \E e \in FstatErrors, size \in FileSizes, cst \in CloseErrors :
          memmap_file_fstat(e, size, cst) /\ MapFrame
    \/ \E res \in MmapResults, e \in MmapErrors, cst \in CloseErrors :
          memmap_file_mmap(res, e, cst) /\ MapFrame
    \/ memmap_file_readonly_return /\ MapFrame

SpecMap == Init /\ [][NextMap]_vars

(***************************************************************************)
(* Properties                                                              *)
(***************************************************************************)

\* C1: threads.sleep(d) with d >= 0 returns only when the process clock
\* reads at least its reading at entry plus d.
C1_SleepNotEarly ==
    (sl_pc = "return" /\ sl_secs >= 0) => cputime >= sl_entry + sl_secs

\* a sleep of 100 microseconds returning after nanosleep was called twice
C1_Witness ==
    /\ sl_pc = "return"
    /\ sl_secs = 100000
    /\ sl_naps >= 2
    /\ sl_status = EINTR

\* C2: event.timed_wait returns only 0 or ETIMEDOUT; on any other status
\* of the OS wait the process is terminated and the call does not return.
C2_TimedWaitStatus ==
    /\ ret.op = "event.timed_wait" => ret.status \in {0, ETIMEDOUT}
    /\ \A t \in Threads : pc[t] = "tw_ret" => tw[t].result \in {0, ETIMEDOUT}
    /\ died.call = "pthread_cond_timedwait" =>
           aborted /\ died.status \notin {0, ETIMEDOUT}

\* the OS wait reported EINVAL and the process was terminated in the call
C2_Witness ==
    /\ aborted
    /\ died.op = "event.timed_wait"
    /\ died.call = "pthread_cond_timedwait"
    /\ died.status = EINVAL

\* C3: a caller that held the lock when it entered event.timed_wait holds
\* it again when the call returns, with either return value.
C3_LockHeldOnReturn ==
    /\ \A t \in Threads : pc[t] = "tw_ret" => owner = t
    /\ ret.op = "event.timed_wait" => ret.after = ret.thread

\* a timed wait that timed out while another thread had taken the lock and
\* signalled, now returning with the lock
C3_Witness ==
    /\ pc[1] = "tw_ret"
    /\ tw[1].result = ETIMEDOUT
    /\ tw[1].signaled
    /\ owner = 1

C5_TryLock ==
    /\ ret.op = "mutex.try_lock" =>
           /\ ret.status \in {0, EBUSY}
           /\ ret.status = 0 =>
                  ret.before = NoThread /\ ret.after = ret.thread /\ owner = ret.thread
           /\ ret.status = EBUSY =>
                  ret.before # NoThread /\ ret.after = ret.before /\ owner = ret.before
           /\ pc[ret.thread] = "ready"
    /\ died.op = "mutex.try_lock" => aborted /\ died.status \notin {0, EBUSY}

\* thread 2 tried the lock while thread 1 held it
C5_Witness ==
    /\ ret.op = "mutex.try_lock"
    /\ ret.thread = 2
    /\ ret.status = EBUSY
    /\ owner = 1

VoidOps == {"mutex.init", "mutex.lock", "mutex.unlock", "mutex.dispose",
            "event.init", "event.signal", "event.wait", "event.dispose"}

\* C6: mutex init, lock, unlock, dispose and event init, signal, wait,
\* dispose return only when the OS call succeeded; on any error the
\* process is terminated.
C6_FailFast ==
    /\ ret.op \in VoidOps => ret.status = 0
    /\ died.op \in VoidOps => aborted /\ died.status # 0

\* disposing a mutex that is already disposed terminated the process
C6_Witness ==
    /\ aborted
    /\ died.op = "mutex.dispose"
    /\ died.status = EINVAL
    /\ mstate = "disposed"

\* C7 as stated: every error of an OS call made by the clock, sleep, mutex
\* and event operations, other than EBUSY from try_lock and ETIMEDOUT from
\* timed_wait, terminates the process; none is ignored or returned.
C7_Original ==
    /\ (ret.op # "none" /\ ret.status # 0) =>
           \/ ret.op = "mutex.try_lock" /\ ret.status = EBUSY
           \/ ret.op = "event.timed_wait" /\ ret.status = ETIMEDOUT
    /\ sl_status # 0 => aborted

\* What the same operations do guarantee: every error of an OS call made
\* by process_clock.time and by the mutex and event operations, other than
\* EBUSY from try_lock and ETIMEDOUT from timed_wait, terminates the
\* process; a sleep goes on after a failed nanosleep.
FailFastWhereChecked ==
    /\ (ret.op \notin {"none", "clock.time_since_epoch"} /\ ret.status # 0) =>
           \/ ret.op = "mutex.try_lock" /\ ret.status = EBUSY
           \/ ret.op = "event.timed_wait" /\ ret.status = ETIMEDOUT
    /\ aborted <=> died.op # "none"
    /\ died.op # "none" =>
           /\ died.status # 0
           /\ ~(died.op = "mutex.try_lock" /\ died.status = EBUSY)
           /\ ~(died.call = "pthread_cond_timedwait" /\ died.status = ETIMEDOUT)
    /\ (sl_status # 0 /\ sl_pc \in {"loop", "return"}) => ~aborted \/ died.op = "clock.time"

Digits12(x) ==
    <<x[1] % 4096,
      x[1] \div 4096 + (x[2] % 256) * 16,
      x[2] \div 256 + (x[3] % 16) * 256,
      x[3] \div 16>>

\* (x * m + c) mod 2^48 on 12-bit digits: column sums, each taking the
\* carry of the column below
Lcg48(x, m, c) ==
    LET a == Digits12(x)
        b == Digits12(m)
        c1 == a[1] * b[1] + c
        c2 == a[1] * b[2] + a[2] * b[1] + c1 \div 4096
        c3 == a[1] * b[3] + a[2] * b[2] + a[3] * b[1] + c2 \div 4096
        c4 == a[1] * b[4] + a[2] * b[3] + a[3] * b[2] + a[4] * b[1] + c3 \div 4096
    IN  <<c1 % 4096, c2 % 4096, c3 % 4096, c4 % 4096>>

\* C10: the successor state computed limb by limb equals
\* (state * 0x5DEECE66D + 0xB) mod 2^48 for every 48-bit state, and the
\* multiplier and the additive constant have these values in every state.
C10_Successor ==
    /\ out.fn # "none" =>
           /\ \A i \in 1..3 : out.next[i] \in 0..(W16 - 1)
           /\ Digits12(out.next) = Lcg48(out.prev, <<58989, 57068, 5>>, 11)
    /\ mult = Multiplier
    /\ add = Additive
    /\ Digits12(mult) = <<1645, 3790, 1502, 0>>

\* the successor of the state 2^48 - 1, where every limb product carries
C10_Witness ==
    /\ out.fn # "none"
    /\ out.prev = <<65535, 65535, 65535>>
    /\ out.next = <<6558, 8467, 65530>>

\* the seeded operation applied k times to the state x
RECURSIVE SeededTimes(_, _)
SeededTimes(x, k) ==
    IF k = 0 THEN x ELSE NextState(SeededTimes(x, k - 1), <<58989, 57068, 5>>, 11)

\* C11: with threads drawing concurrently from seeds of their own, in
\* every interleaving each thread's seed and outputs are those of the
\* single-threaded sequence for its seed, and the process-wide seed is
\* moved only by the global draws.
C11_SeededIsolation ==
    /\ \A t \in Threads : tseed[t] = SeededTimes(seed0[t], sdraws[t])
    /\ \A t \in Threads :
           (last[t].fn # "none" /\ last[t].seeded) =>
               last[t] = Draw(last[t].fn, TRUE, SeededTimes(seed0[t], sdraws[t] - 1))
    /\ \E k \in 0..gdraws : gseed = SeededTimes(<<13070, 43981, 4660>>, k)

\* both threads have drawn from different seeds of their own, thread 1 is
\* in the middle of another draw, and a global draw went in between
C11_Witness ==
    /\ seed0[1] # seed0[2]
    /\ sdraws[1] = 1
    /\ sdraws[2] = 1
    /\ last[1].seeded
    /\ last[2].seeded
    /\ rpc[1] = "g_loaded"

\* C12: the process-wide seed is 0x1234ABCD330E before the first draw, and
\* in a single-threaded run the k-th global draw returns the value and
\* leaves the state of the seeded operation applied k times to a seed
\* that started as 0x1234ABCD330E.
C12_GlobalAsSeeded ==
    /\ gdraws = 0 => gseed = <<13070, 43981, 4660>>
    /\ gseed = SeededTimes(<<13070, 43981, 4660>>, gdraws)
    /\ (out.fn # "none" /\ ~out.seeded) =>
           LET ref == Draw(out.fn, TRUE, SeededTimes(<<13070, 43981, 4660>>, gdraws - 1))
           IN  /\ out.prev = ref.prev
               /\ out.next = ref.next
               /\ out.int = ref.int
               /\ out.dbl = ref.dbl

\* the second global draw, a next_double, with a seeded draw in between
C12_Witness ==
    /\ gdraws = 2
    /\ draws = 3
    /\ out.fn = "next_double"
    /\ ~out.seeded

\* C13: the process-wide seed is updated without a lock: two threads whose
\* global draws read the same state obtain the same successor and, for the
\* same function, the same output, and one of the two updates is lost.
C13_LostUpdate ==
    \A t \in Threads, u \in Threads :
        (/\ t # u
         /\ rpc[t] = "idle" /\ rpc[u] = "idle"
         /\ last[t].fn # "none" /\ last[u].fn # "none"
         /\ ~last[t].seeded /\ ~last[u].seeded
         /\ last[t].prev = last[u].prev) =>
            /\ last[t].next = last[u].next
            /\ last[t].fn = last[u].fn =>
                   last[t].int = last[u].int /\ last[t].dbl = last[u].dbl
            /\ gseed # SeededTimes(<<13070, 43981, 4660>>, gdraws)

\* both threads drew next_uint32 from the initial state and got the same
\* number; the seed has advanced once for two draws
C13_Witness ==
    /\ last[1].fn = "next_uint32" /\ ~last[1].seeded
    /\ last[2].fn = "next_uint32" /\ ~last[2].seeded
    /\ last[1].int = last[2].int
    /\ gdraws = 2
    /\ gseed = <<20737, 46885, 25982>>

\* the characters of the string in buffer b: those before its terminator
CStr(b) ==
    LET nul == {i \in 1..BufLen : b[i] = 0}
        end == IF nul = {} THEN BufLen + 1 ELSE CHOOSE i \in nul : \A j \in nul : i <= j
    IN  SubSeq(b, 1, end - 1)

\* the first n characters of the string in buffer b
FirstChars(b, n) ==
    LET c == CStr(b)
    IN  SubSeq(c, 1, IF n < Len(c) THEN n ELSE Len(c))

\* C14: str.equal(s1, s2, bytes) with bytes > 0 is true exactly when the
\* first bytes characters of the two strings are equal, and with bytes = 0
\* exactly when the two terminated strings are identical, also when s1 and
\* s2 are the same pointer.
C14_StrEqual ==
    s_pc = "done" =>
        /\ s_bytes > 0 =>
               (s_result <=> FirstChars(s_mem[s_p1], s_bytes) = FirstChars(s_mem[s_p2], s_bytes))
        /\ (s_bytes = 0 /\ Terminated(s_mem[s_p1]) /\ Terminated(s_mem[s_p2])) =>
               (s_result <=> CStr(s_mem[s_p1]) = CStr(s_mem[s_p2]))
        /\ (s_bytes = 0 /\ s_p1 = s_p2) => s_result

\* "abb" without terminator and "ab" differ, compared as 2 bytes are equal
C14_Witness ==
    /\ s_pc = "done"
    /\ s_mem[1] = [i \in 1..BufLen |-> IF i = 1 THEN 1 ELSE 2]
    /\ s_mem[2] = [i \in 1..BufLen |-> IF i = 1 THEN 1 ELSE IF i = 2 THEN 2 ELSE 0]
    /\ s_p1 = 1
    /\ s_p2 = 2
    /\ s_bytes = 2
    /\ s_result

\* the calls of event.timed_wait that reached pthread_cond_timedwait
PassedToWait(t) == pc[t] \in {"tw", "tw_woken", "tw_after", "tw_ret"}

\* C15: the absolute time event.timed_wait hands to pthread_cond_timedwait
\* has tv_nsec in 0 .. 999999999 and stands for the one CLOCK_REALTIME
\* reading of the call plus the duration in nanoseconds.
C15_AbsoluteTime ==
    \A t \in Threads :
        PassedToWait(t) =>
            /\ tw[t].ts.tv_nsec \in 0..(NSEC_PER_SEC - 1)
            /\ tw[t].ts.tv_sec >= 0
            /\ TimespecNs(tw[t].ts) = tw[t].now + tw[t].seconds

\* a wait entered at a reading below one second whose duration carries the
\* absolute time into the next second
C15_Witness ==
    /\ pc[1] = "tw"
    /\ tw[1].now < NSEC_PER_SEC
    /\ tw[1].seconds > 0
    /\ tw[1].ts.tv_sec = 1
    /\ tw[1].ts.tv_nsec = tw[1].now + tw[1].seconds - NSEC_PER_SEC


\* C16 as stated: event.timed_wait measures the wall-clock time that went by
\* across the OS wait, and (in a build that traces) the early wake is logged
\* exactly when the call timed out and that time is less than the duration;
\* the status returned with the warning is ETIMEDOUT. The wall-clock time
\* is taken as the time that passed or as the CLOCK_REALTIME difference,
\* whichever suits the statement.
C16_Original ==
    \A t \in Threads :
        (pc[t] = "tw_ret" /\ debug) =>
            /\ \/ tw[t].warned <=>
                      (tw[t].result = ETIMEDOUT /\ wall - tw[t].wall0 < tw[t].seconds)
               \/ tw[t].warned <=>
                      (tw[t].result = ETIMEDOUT /\ realtime - tw[t].now < tw[t].seconds)
            /\ tw[t].warned => (tw[t].result = ETIMEDOUT /\ ret.status = ETIMEDOUT)


\* C17: event.timed_wait calls pthread_cond_timedwait once and returns the
\* status of that one call: once the OS wait has been left, however early,
\* the call does not wait again; thread_sleep goes round its loop after
\* every return of nanosleep and returns only with the deadline reached.
C17_WaitOnce ==
    [][/\ \A t \in Threads :
             /\ pc[t] \in {"tw_woken", "tw_after", "tw_ret"} => pc'[t] # "tw"
             /\ (pc[t] = "tw_after" /\ pc'[t] = "tw_ret") =>
                    /\ tw'[t].result = tw[t].result
                    /\ ret'.op = "event.timed_wait"
                    /\ ret'.status = tw[t].result
       /\ (sl_pc = "nanosleep" /\ sl_pc' # "nanosleep") => sl_pc' = "loop"
       /\ (sl_pc = "loop" /\ sl_pc' = "return") => cputime >= sl_deadline
      ]_vars

\* a sleep that called nanosleep again after an interruption, and then a
\* timed wait the OS woke before its deadline without a signal, returning 0
C17_Witness ==
    /\ pc[1] = "tw_ret"
    /\ tw[1].spurious
    /\ ~tw[1].signaled
    /\ tw[1].result = 0
    /\ realtime < TimespecNs(tw[1].ts)
    /\ sl_pc = "idle"
    /\ sl_naps >= 2
    /\ sl_status = EINTR


\* C18: thread_sleep computes its deadline once, at entry, from the process
\* clock and the duration and keeps it; every request it makes of nanosleep
\* is the time left to the deadline at that reading of the clock, positive
\* and cut to whole nanoseconds, with tv_nsec in 0 .. 999999999; with no time left nanosleep is not
\* called, so a sleep of a duration <= 0 never calls it.
C18_SleepRequest ==
    [][/\ sl_pc # "idle" => sl_deadline' = sl_deadline
       /\ (sl_pc = "idle" /\ sl_pc' = "loop") => sl_deadline' = cputime + sl_secs'
       /\ (sl_pc = "loop" /\ sl_pc' = "nanosleep") =>
              /\ sl_deadline - cputime > 0 \/ (sl_deadline - cputime = 0 /\ sl_frac > 0)
              /\ sl_req'.tv_nsec \in 0..(NSEC_PER_SEC - 1)
              /\ sl_req'.tv_sec >= 0
              /\ TimespecNs(sl_req') = sl_deadline - cputime
       /\ (sl_pc = "loop" /\ sl_deadline - cputime < 0) => sl_pc' # "nanosleep"
       /\ (sl_pc = "loop" /\ sl_deadline - cputime = 0 /\ sl_frac = 0) => sl_pc' # "nanosleep"
       /\ sl_naps' # sl_naps => (sl_pc = "nanosleep" \/ sl_pc = "idle")
       /\ (sl_secs' < 0 \/ (sl_secs' = 0 /\ sl_frac' = 0)) => sl_naps' = 0
      ]_vars

\* a sleep of a second and 100 microseconds, interrupted at once, asking
\* nanosleep again for the whole second and the 100 microseconds
C18_Witness ==
    /\ sl_pc = "nanosleep"
    /\ sl_naps >= 1
    /\ sl_status = EINTR
    /\ sl_req.tv_sec = 1
    /\ sl_req.tv_nsec = 100000
    /\ sl_deadline = sl_entry + sl_secs


\* C19: thread_sleep comes to its end for every duration: with every
\* nanosleep returning and the process clock going on until it has passed
\* the deadline, a sleep that has been entered returns (or the process is
\* terminated on a failed clock reading), however often nanosleep is
\* interrupted and also when less than a nanosecond is left to sleep.
C19_SleepTerminates ==
    (sl_pc \in {"loop", "nanosleep"}) ~> (sl_pc = "return" \/ aborted)

\* a sleep returning whose last request, after an interruption, was for
\* zero seconds and zero nanoseconds with half a nanosecond left
C19_Witness ==
    /\ sl_pc = "return"
    /\ sl_secs > 0
    /\ sl_frac = 1
    /\ sl_naps >= 2
    /\ sl_status = EINTR
    /\ sl_req.tv_sec = 0
    /\ sl_req.tv_nsec = 0


\* C20: a call of memmap.file_readonly that opened the file has closed the
\* descriptor exactly once when it returns, whichever way it went (fstat
\* failed, the size was refused, the mapping failed or succeeded); close
\* is never called twice nor on a descriptor that is not open; a call
\* whose open failed calls no close.
C20_ClosedOnce ==
    /\ mm.closes <= 1
    /\ mm.fd # "bad"
    /\ mm.pc \in {"fstat", "mmap"} => (mm.fd = "open" /\ mm.closes = 0)
    /\ (mm.pc = "return" \/ ret.op = "memmap.file_readonly") =>
           IF mm.opened
             THEN mm.closes = 1 /\ mm.fd = "closed"
             ELSE mm.closes = 0 /\ mm.fd = "none" /\ mm.path = "open"

\* a call whose mmap failed with ENOMEM: it went on to the close of line
\* 241 and returns 0 with the descriptor closed once
C20_Witness ==
    /\ ret.op = "memmap.file_readonly"
    /\ ret.status = 0
    /\ mm.path = "map_failed"
    /\ mm.data = "MAP_FAILED"
    /\ mm.errno = ENOMEM
    /\ mm.opened
    /\ mm.closes = 1
    /\ mm.fd = "closed"

====
